---------------------------- MODULE Spec2Model ----------------------------
(***************************************************************************)
(* A model of the Riot-API access and aggregation pipeline of              *)
(* soloqtracker-discord (src/src/scripts_soloq.py, src/bot.py).            *)
(*                                                                         *)
(*   SpecFetch : one call of get_ids, the retry loop around requests.get   *)
(*   SpecBuild : one call of build_player_rows over a roster               *)
(*   SpecHydrate : one run of hydrate_players_accounts with its cache file *)
(*   SpecRank  : max_elo applied to a list of rank strings                 *)
(*   SpecRender : format_players_report applied to a list of rows          *)
(*                                                                         *)
(* Strings that the code parses or formats are sequences of one-character  *)
(* strings.  Durations are exact rationals <<numerator, denominator>>.     *)
(***************************************************************************)
EXTENDS Integers, Sequences, FiniteSets, TLC

VARIABLES
    \* ---- get_ids ----
    retries,        \* parameter `retries`
    backoff,        \* parameter `backoff`, a rational <<num, den>>
    attempt,        \* loop variable of `for attempt in range(1, retries + 1)`
    fpc,            \* position in get_ids: "request", "sleep", "returned", "raised"
    resp,           \* outcome of the last requests.get
    sleep_s,        \* argument of the pending / last time.sleep
    last_exc,       \* local `last_exc`
    result,         \* what get_ids returned or raised
    n_requests,     \* transport: number of requests.get calls issued
    n_sleeps,       \* clock: number of time.sleep calls made
    n_retryable,    \* transport: number of retryable outcomes delivered
    net_failure,    \* transport: the last timeout / connection failure delivered
    \* ---- build_player_rows ----
    players_accounts, \* argument: the roster, in insertion order
    rows,           \* local `rows`
    pi,             \* index of the player being processed
    ai,             \* index of the account being processed
    bpc,            \* position in build_player_rows
    games_24,       \* local `games_24`
    games_7,        \* local `games_7`
    last_game_ts_ms,\* local `last_game_ts_ms`
    acc_elos,       \* local `acc_elos`
    raised,         \* the exception build_player_rows let escape, or "None"
    ops,            \* transport: the requests issued by the try block just executed
    tally,          \* transport: what the queries of the current player's accounts
                    \* were (or would be) answered with a 200, added up
    transport,      \* transport: the scripts each endpoint can follow in this run
    \* ---- hydrate_players_accounts ----
    disk,           \* the cache file at `cache_path`
    hyd,            \* per run of hydrate_players_accounts: its arguments, locals
                    \* and position, and what the run did so far
    \* ---- max_elo ----
    rank_elos,      \* argument `acc_elos`
    rank_best,      \* the value max_elo returned
    kpc,            \* position: "idle", "call", "returned"
    \* ---- format_players_report ----
    table_rows,     \* argument `rows`
    report,         \* the lines of the string format_players_report returned
    widths,         \* local `widths`
    tpc             \* position: "idle", "call", "returned"

fvars == <<retries, backoff, attempt, fpc, resp, sleep_s, last_exc, result,
           n_requests, n_sleeps, n_retryable, net_failure>>
bvars == <<players_accounts, rows, pi, ai, bpc, games_24, games_7,
           last_game_ts_ms, acc_elos, raised, ops, tally, transport>>
hvars == <<disk, hyd>>
kvars == <<rank_elos, rank_best, kpc>>
tvars == <<table_rows, report, widths, tpc>>
vars == <<fvars, bvars, hvars, kvars, tvars>>

-----------------------------------------------------------------------------
(* Bounds *)

\* largest `retries` argument explored
MaxRetries == 6

-----------------------------------------------------------------------------
(* Arithmetic helpers *)

RECURSIVE Pow(_, _)
Pow(b, e) == IF e = 0 THEN 1 ELSE b * Pow(b, e - 1)

\* a <= b for rationals with positive denominators
RatLeq(a, b) == a[1] * b[2] <= b[1] * a[2]

\* Python's min(a, b): the first argument unless the second is smaller
RatMin(a, b) == IF RatLeq(a, b) THEN a ELSE b

RatOfInt(n) == <<n, 1>>

RatPow(b, e) == <<Pow(b[1], e), Pow(b[2], e)>>

\* float("<digits>") of a decimal header value
RECURSIVE DecimalValue(_)
DecimalValue(ds) ==
    IF ds = <<>> THEN 0 ELSE 10 * DecimalValue(SubSeq(ds, 1, Len(ds) - 1)) + ds[Len(ds)]

-----------------------------------------------------------------------------
(* get_ids: the transport *)

\* cap of the sleep after a 429 without Retry-After
RateLimitCap == 60
\* cap of the sleep after a 5xx or a transport failure
BackoffCap == 30

\* the Account-V1 payloads a 200 can carry
Payloads == { [gameName |-> "Name", tagLine |-> "TAG", puuid |-> "puuid-1"],
              [gameName |-> "Other", tagLine |-> "EUW", puuid |-> "puuid-2"] }
NoPayload == [gameName |-> "", tagLine |-> "", puuid |-> ""]

\* Retry-After header values: absent (<<>>) or decimal seconds as digits
RetryAfterValues == { <<>>, <<0>>, <<1>>, <<1, 2, 0>> }

HttpStatuses == {200, 429, 500, 502, 503, 504, 403, 404}

HttpResponse(status, retry_after, body) ==
    [kind |-> "http", status |-> status, retry_after |-> retry_after, body |-> body]

\* everything one requests.get can produce
Outcomes ==
    { HttpResponse(200, <<>>, b) : b \in Payloads }
    \cup { HttpResponse(429, ra, NoPayload) : ra \in RetryAfterValues }
    \cup { HttpResponse(s, <<>>, NoPayload) : s \in HttpStatuses \ {200, 429} }
    \cup { [kind |-> k, status |-> 0, retry_after |-> <<>>, body |-> NoPayload]
             : k \in {"Timeout", "ConnectionError"} }

NoResponse == [kind |-> "none", status |-> 0, retry_after |-> <<>>, body |-> NoPayload]

\* the transport's own view of which outcomes a client may retry
TransportRetryable(o) ==
    \/ o.kind \in {"Timeout", "ConnectionError"}
    \/ o.kind = "http" /\ o.status \in {429, 500, 502, 503, 504}

NoExc == [exc |-> "None", at |-> 0]

-----------------------------------------------------------------------------
(* get_ids: the retry policy, lines 71-99 *)

\* line 81: float(retry_after) if retry_after else min(2 ** attempt, 60)
SleepAfter429(retry_after, a) ==
    IF retry_after # <<>>
    THEN RatOfInt(DecimalValue(retry_after))
    ELSE RatOfInt(IF Pow(2, a) <= RateLimitCap THEN Pow(2, a) ELSE RateLimitCap)

\* a backoff that is never capped
SleepBackoff_NoCap(b, a) == RatPow(b, a)

\* lines 86 and 97: min(backoff ** attempt, 30)
SleepBackoff(b, a) == RatMin(RatPow(b, a), RatOfInt(BackoffCap))

\* line 85: the statuses retried with backoff
ServerErrorStatuses == {500, 502, 503, 504}

\* a policy that gives up on a 429 instead of retrying it
Disposition_429Fatal(o) ==
    IF o.kind \in {"Timeout", "ConnectionError"} THEN "except"
    ELSE IF o.status = 200 THEN "return"
    ELSE IF o.status \in ServerErrorStatuses THEN "server_error"
    ELSE "api_error"

\* a policy that retries every status other than 200
Disposition_RetryAll(o) ==
    IF o.kind \in {"Timeout", "ConnectionError"} THEN "except"
    ELSE IF o.status = 200 THEN "return"
    ELSE IF o.status = 429 THEN "rate_limited"
    ELSE "server_error"

\* lines 76-97: what one response or exception makes the loop do
Disposition(o) ==
    IF o.kind \in {"Timeout", "ConnectionError"} THEN "except"
    ELSE IF o.status = 200 THEN "return"
    ELSE IF o.status = 429 THEN "rate_limited"
    ELSE IF o.status \in ServerErrorStatuses THEN "server_error"
    ELSE "api_error"

NoResult == [kind |-> "none", value |-> NoPayload, status |-> 0,
             attempts |-> 0, cause |-> NoExc]

\* line 77: return resp.json()
ReturnValue(o) == [NoResult EXCEPT !.kind = "return", !.value = o.body]

\* line 93: raise RuntimeError(f"Riot API error {resp.status_code}: {details}")
ApiError(o) == [NoResult EXCEPT !.kind = "api_error", !.status = o.status]

\* line 99: raise RuntimeError(f"Failed after {retries} attempts") from last_exc
ExhaustedError(n, cause) ==
    [NoResult EXCEPT !.kind = "exhausted", !.attempts = n, !.cause = cause]

\* lines 95-96: the except clause binds the exception of this attempt
NextLastExc(o, a, prev) ==
    IF Disposition(o) = "except" THEN [exc |-> o.kind, at |-> a] ELSE prev

\* lines 82, 86, 97: the argument of time.sleep after outcome `o` of attempt `a`
SleepFor(o, b, a) ==
    IF Disposition(o) = "rate_limited"
    THEN SleepAfter429(o.retry_after, a)
    ELSE SleepBackoff(b, a)

\* a loop in which a rate-limited attempt is not counted
NextAttempt_429Free(a, o) == IF o.status = 429 THEN a ELSE a + 1

\* line 72: the for loop's next value of `attempt` after the sleep of attempt `a`
NextAttempt(a, o) == a + 1

\* line 72: the loop is entered with attempt = 1, or not at all
InitFetch ==
    /\ retries \in 0..MaxRetries
    /\ backoff \in { <<3, 2>>, <<2, 1>> }
    /\ attempt = 1
    /\ fpc = "request"
    /\ resp = NoResponse
    /\ sleep_s = <<0, 1>>
    /\ last_exc = NoExc
    /\ result = NoResult
    /\ n_requests = 0
    /\ n_sleeps = 0
    /\ n_retryable = 0
    /\ net_failure = NoExc
    \* build_player_rows is not running
    /\ players_accounts = <<>>
    /\ rows = <<>>
    /\ pi = 0
    /\ ai = 0
    /\ bpc = "idle"
    /\ games_24 = 0
    /\ games_7 = 0
    /\ last_game_ts_ms = 0
    /\ acc_elos = <<>>
    /\ raised = "None"
    /\ ops = <<>>
    /\ tally = <<>>
    /\ transport = [count |-> {}, ids |-> {}, detail |-> {}, league |-> {}]
    \* hydrate_players_accounts, max_elo and format_players_report are not running
    /\ disk = [kind |-> "absent", entries |-> <<>>, size |-> 0]
    /\ hyd = <<>>
    /\ rank_elos = <<>>
    /\ rank_best = <<>>
    /\ kpc = "idle"
    /\ table_rows = <<>>
    /\ report = <<>>
    /\ widths = <<>>
    /\ tpc = "idle"

\* line 74: requests.get answers with `o`; lines 76-97 handle it up to the
\* return, the raise or the call of time.sleep
GetIdsRequest ==
    /\ fpc = "request"
    /\ attempt <= retries
    /\ \E o \in Outcomes :
        /\ resp' = o
        /\ n_requests' = n_requests + 1
        /\ n_retryable' = IF TransportRetryable(o) THEN n_retryable + 1 ELSE n_retryable
        /\ net_failure' = IF o.kind \in {"Timeout", "ConnectionError"}
                          THEN [exc |-> o.kind, at |-> n_requests + 1]
                          ELSE net_failure
        /\ last_exc' = NextLastExc(o, attempt, last_exc)
        /\ \/ /\ Disposition(o) = "return"
              /\ result' = ReturnValue(o)
              /\ fpc' = "returned"
              /\ UNCHANGED sleep_s
           \/ /\ Disposition(o) = "api_error"
              /\ result' = ApiError(o)
              /\ fpc' = "raised"
              /\ UNCHANGED sleep_s
           \/ /\ Disposition(o) \in {"rate_limited", "server_error", "except"}
              /\ sleep_s' = SleepFor(o, backoff, attempt)
              /\ fpc' = "sleep"
              /\ UNCHANGED result
    /\ UNCHANGED <<retries, backoff, attempt, n_sleeps>>
    /\ UNCHANGED <<bvars, hvars, kvars, tvars>>

\* a loop that does not sleep after the failure of its last attempt
GetIdsSleep_SkipLast ==
    /\ fpc = "sleep"
    /\ n_sleeps' = IF attempt < retries THEN n_sleeps + 1 ELSE n_sleeps
    /\ attempt' = NextAttempt(attempt, resp)
    /\ fpc' = "request"
    /\ UNCHANGED <<retries, backoff, resp, sleep_s, last_exc, result,
                   n_requests, n_retryable, net_failure>>
    /\ UNCHANGED <<bvars, hvars, kvars, tvars>>

\* lines 82, 86, 97: time.sleep returns and the loop takes its next attempt
GetIdsSleep ==
    /\ fpc = "sleep"
    /\ n_sleeps' = n_sleeps + 1
    /\ attempt' = NextAttempt(attempt, resp)
    /\ fpc' = "request"
    /\ UNCHANGED <<retries, backoff, resp, sleep_s, last_exc, result,
                   n_requests, n_retryable, net_failure>>
    /\ UNCHANGED <<bvars, hvars, kvars, tvars>>

\* line 99: the loop is over, raise RuntimeError(...) from last_exc
GetIdsExhausted ==
    /\ fpc = "request"
    /\ attempt > retries
    /\ result' = ExhaustedError(retries, last_exc)
    /\ fpc' = "raised"
    /\ UNCHANGED <<retries, backoff, attempt, resp, sleep_s, last_exc,
                   n_requests, n_sleeps, n_retryable, net_failure>>
    /\ UNCHANGED <<bvars, hvars, kvars, tvars>>

-----------------------------------------------------------------------------
(* Strings: sequences of one-character strings *)

LowerLetters == <<"a", "b", "c", "d", "e", "f", "g", "h", "i", "j", "k", "l", "m", "n", "o", "p", "q", "r", "s", "t", "u", "v", "w", "x", "y", "z">>
UpperLetters == <<"A", "B", "C", "D", "E", "F", "G", "H", "I", "J", "K", "L", "M", "N", "O", "P", "Q", "R", "S", "T", "U", "V", "W", "X", "Y", "Z">>
Digits == <<"0", "1", "2", "3", "4", "5", "6", "7", "8", "9">>

LowerSet == { LowerLetters[i] : i \in 1..26 }
DigitSet == { Digits[i] : i \in 1..10 }
\* the characters of the regex class \w
WordSet == LowerSet \cup { UpperLetters[i] : i \in 1..26 } \cup DigitSet \cup {"_"}
UpperOf == [c \in LowerSet |-> UpperLetters[CHOOSE i \in 1..26 : LowerLetters[i] = c]]

\* str.upper() on one character
UpperChar(c) == IF c \in LowerSet THEN UpperOf[c] ELSE c

\* s.upper()
StrUpper(s) == [i \in 1..Len(s) |-> UpperChar(s[i])]

IsSpace(c) == c = " "
IsDigit(c) == c \in DigitSet
DigitValue(c) == (CHOOSE i \in 1..10 : Digits[i] = c) - 1
IsWord(c) == c \in WordSet

\* s.strip()
RECURSIVE StrStrip(_)
StrStrip(s) ==
    IF s = <<>> THEN s
    ELSE IF IsSpace(s[1]) THEN StrStrip(Tail(s))
    ELSE IF IsSpace(s[Len(s)]) THEN StrStrip(SubSeq(s, 1, Len(s) - 1))
    ELSE s

\* whether sub occurs in s at position i
OccursAt(s, i, sub) ==
    /\ i + Len(sub) - 1 <= Len(s)
    /\ \A k \in 1..Len(sub) : s[i + k - 1] = sub[k]

\* `sub in s`
Contains(s, sub) == \E i \in 1..(Len(s) - Len(sub) + 1) : OccursAt(s, i, sub)

\* str(n) of a natural number
RECURSIVE StrOfNat(_)
StrOfNat(n) ==
    IF n < 10 THEN <<Digits[n + 1]>>
    ELSE StrOfNat(n \div 10) \o <<Digits[(n % 10) + 1]>>

\* int("<digits>")
IntOfStr(s) == DecimalValue([i \in 1..Len(s) |-> DigitValue(s[i])])

\* None, where the code has a string or None
PyNone == <<"<None>">>

Str_Unranked == <<"U", "n", "r", "a", "n", "k", "e", "d">>
Str_UNRANKED == <<"U", "N", "R", "A", "N", "K", "E", "D">>
Str_NoGames == <<"N", "o", " ", "g", "a", "m", "e", "s">>
Str_SoloQueue == <<"R", "A", "N", "K", "E", "D", "_", "S", "O", "L", "O", "_", "5", "x", "5">>
Str_FlexQueue == <<"R", "A", "N", "K", "E", "D", "_", "F", "L", "E", "X", "_", "S", "R">>
\* line 355: the four characters of the literal as the file spells it
Str_Emoji == <<"<U+00F0>", "<U+0178>", "<U+2019>", "<U+20AC>">>

-----------------------------------------------------------------------------
(* RankComparator: _parse_elo and max_elo, lines 221-271 *)

\* lines 221-224
TIERS == << <<"I", "R", "O", "N">>,
           <<"B", "R", "O", "N", "Z", "E">>,
           <<"S", "I", "L", "V", "E", "R">>,
           <<"G", "O", "L", "D">>,
           <<"P", "L", "A", "T", "I", "N", "U", "M">>,
           <<"E", "M", "E", "R", "A", "L", "D">>,
           <<"D", "I", "A", "M", "O", "N", "D">>,
           <<"M", "A", "S", "T", "E", "R">>,
           <<"G", "R", "A", "N", "D", "M", "A", "S", "T", "E", "R">>,
           <<"C", "H", "A", "L", "L", "E", "N", "G", "E", "R">> >>

\* line 225: TIER_RANK[TIERS[i]] = i - 1
MasterRank == 7

\* line 226: DIV_MAP
DivAlternatives == << <<"I">>, <<"I", "I">>, <<"I", "I", "I">>, <<"I", "V">>, <<"V">> >>
DIV_MAP(d) ==
    CASE d = <<"V">> -> 0
      [] d = <<"I", "V">> -> 1
      [] d = <<"I", "I", "I">> -> 2
      [] d = <<"I", "I">> -> 3
      [] d = <<"I">> -> 4
      [] OTHER -> 0

Sentinel == <<-1, -1, -1>>

\* the end of the longest run of digits of s that starts at i (i - 1: none)
DigitRunEnd(s, i) ==
    CHOOSE e \in (i - 1)..Len(s) :
        /\ \A x \in i..e : IsDigit(s[x])
        /\ (e = Len(s) \/ ~IsDigit(s[e + 1]))

\* the end of the longest run of whitespace of s that starts at i
SpaceRunEnd(s, i) ==
    CHOOSE e \in (i - 1)..Len(s) :
        /\ \A x \in i..e : IsSpace(s[x])
        /\ (e = Len(s) \/ ~IsSpace(s[e + 1]))

\* line 238: whether r"\((\d+)\s*LP\)" matches s at position i
LpMatchesAt(s, i) ==
    /\ s[i] = "("
    /\ LET j == DigitRunEnd(s, i + 1)
           k == SpaceRunEnd(s, j + 1)
       IN  /\ j >= i + 1
           /\ OccursAt(s, k + 1, <<"L", "P", ")">>)

\* lines 238-239: lp = int(m.group(1)) if m else 0
ParseLp(s) ==
    LET hits == { i \in 1..Len(s) : LpMatchesAt(s, i) }
    IN  IF hits = {} THEN 0
        ELSE LET i == CHOOSE x \in hits : \A y \in hits : x <= y
             IN  IntOfStr(SubSeq(s, i + 1, DigitRunEnd(s, i + 1)))

\* lines 242-246: the loop over TIERS from index t on, with its break
RECURSIVE TierFrom(_, _)
TierFrom(s, t) ==
    IF t > Len(TIERS) THEN -1
    ELSE IF Contains(s, TIERS[t]) THEN t - 1
    ELSE TierFrom(s, t + 1)

ParseTier(s) == TierFrom(s, 1)

\* the regex \b before position i of s
WordBoundary(s, i) ==
    LET left == i > 1 /\ IsWord(s[i - 1])
        right == i <= Len(s) /\ IsWord(s[i])
    IN  left # right

\* line 254: whether alternative d of r"\b(I|II|III|IV|V)\b" matches s at i
DivMatchesAt(s, i, d) ==
    /\ OccursAt(s, i, d)
    /\ WordBoundary(s, i)
    /\ WordBoundary(s, i + Len(d))

\* lines 254-255: DIV_MAP.get(mdiv.group(1), 0) if mdiv else 0
ParseDivision(s) ==
    LET hits == { i \in 1..Len(s) :
                    /\ s[i] \in {"I", "V"}
                    /\ \E a \in 1..Len(DivAlternatives) : DivMatchesAt(s, i, DivAlternatives[a]) }
    IN  IF hits = {} THEN 0
        ELSE LET i == CHOOSE x \in hits : \A y \in hits : x <= y
                 a == CHOOSE x \in 1..Len(DivAlternatives) :
                        /\ DivMatchesAt(s, i, DivAlternatives[x])
                        /\ \A y \in 1..(x - 1) : ~DivMatchesAt(s, i, DivAlternatives[y])
             IN  DIV_MAP(DivAlternatives[a])

\* lines 229-257
ParseElo(s) ==
    IF s = <<>> \/ s = PyNone THEN Sentinel
    ELSE LET su == StrStrip(StrUpper(s))
         IN  IF Contains(su, Str_UNRANKED) THEN Sentinel
             ELSE LET lp == ParseLp(su)
                      tier_rank == ParseTier(su)
                  IN  IF tier_rank = -1 THEN Sentinel
                      ELSE IF tier_rank >= MasterRank
                           THEN <<tier_rank, 5, lp>>
                           ELSE <<tier_rank, ParseDivision(su), lp>>

\* a comparison that looks at the tier only
KeyGreater_TierOnly(k1, k2) == k1[1] > k2[1]

\* a comparison that puts the league points first
KeyGreater_LpFirst(k1, k2) ==
    \/ k1[3] > k2[3]
    \/ k1[3] = k2[3] /\ k1[1] > k2[1]
    \/ k1[3] = k2[3] /\ k1[1] = k2[1] /\ k1[2] > k2[2]

\* tuple comparison k1 > k2
KeyGreater(k1, k2) ==
    \/ k1[1] > k2[1]
    \/ k1[1] = k2[1] /\ k1[2] > k2[2]
    \/ k1[1] = k2[1] /\ k1[2] = k2[2] /\ k1[3] > k2[3]

\* lines 260-271: max() keeps the first of the greatest entries
max_elo(elos) ==
    LET key == [i \in 1..Len(elos) |-> ParseElo(elos[i])]
        parsed == { i \in 1..Len(elos) : key[i][1] >= 0 }
    IN  IF parsed = {} THEN PyNone
        ELSE elos[CHOOSE i \in parsed :
                    \A j \in parsed :
                        /\ ~KeyGreater(key[j], key[i])
                        /\ (j < i => KeyGreater(key[i], key[j]))]

-----------------------------------------------------------------------------
(* AccountStatsCollector: the transport of the stats requests *)

\* largest number of match ids one listing returns
MaxCount == 1
\* largest gameStartTimestamp, in ms since the epoch
MaxTs == 2
\* largest number of players of a roster
MaxPlayers == 2
\* largest number of accounts of a player
MaxAccounts == 2

StatsOk(v) == [kind |-> "http", status |-> 200, value |-> v]
StatsFail(status) == [kind |-> "http", status |-> status, value |-> <<>>]
StatsTimeout == [kind |-> "Timeout", status |-> 0, value |-> <<>>]

\* what a client with the retry policy of get_ids would retry
StatsRetryable == { StatsFail(429), StatsFail(503), StatsTimeout }

\* the scripts of one request: the response it gets and, after a retryable
\* one, the 200 a second attempt would get
Scripts(bodies) ==
    { <<r>> : r \in { StatsOk(b) : b \in bodies } \cup { StatsFail(404) } }
    \cup { <<r1, StatsOk(b)>> : r1 \in StatsRetryable, b \in bodies }

\* an endpoint that is down
Down == { <<StatsFail(503)>> }

\* the scripts of an endpoint that answers with `body` or with a 404
Plain(body) == { <<StatsOk(body)>>, <<StatsFail(404)>> }

\* match-v5 ids listing with a time window: a list of that many ids
CountBodies == { [i \in 1..n |-> "match"] : n \in 0..MaxCount }
\* match-v5 ids listing with count=1
IdsBodies == { <<>>, <<"match">> }
\* match-v5 match detail: info.gameStartTimestamp, 0 when the field is absent
DetailBodies == 0..MaxTs

LeagueEntry(q, t, r, lp) == [queueType |-> q, tier |-> t, rank |-> r, leaguePoints |-> lp]
FlexEntry == LeagueEntry(Str_FlexQueue, <<"P", "L", "A", "T", "I", "N", "U", "M">>, <<"I">>, 75)
SoloGold == LeagueEntry(Str_SoloQueue, <<"G", "O", "L", "D">>, <<"I", "V">>, 10)
SoloSilver == LeagueEntry(Str_SoloQueue, <<"S", "I", "L", "V", "E", "R">>, <<"I", "I", "I">>, 40)
\* league-v4 entries by puuid
LeagueBodies == { <<>>, <<FlexEntry>>, <<SoloGold>>, <<FlexEntry, SoloSilver>> }

\* what the external API can answer during one run, per endpoint: every
\* script of one endpoint family while the others are down, or plain
\* answers of all of them
Transports ==
    { [count |-> Scripts(CountBodies), ids |-> Down, detail |-> Down, league |-> Down],
      [count |-> Down, ids |-> Scripts(IdsBodies), detail |-> Scripts(DetailBodies),
       league |-> Down],
      [count |-> Down, ids |-> Down, detail |-> Down, league |-> Scripts(LeagueBodies)],
      [count |-> Plain(<<"match">>), ids |-> Plain(<<"match">>), detail |-> Plain(MaxTs),
       league |-> Plain(<<SoloGold>>)] }

-----------------------------------------------------------------------------
(* AccountStatsCollector: count_soloq, get_current_elo, lines 162-217 *)

\* requests.get without raise_for_status raising: the call's result
\* (lines 184-185, 206-207, 371-372, 376-377)
RequestOk(script) == script[1].kind = "http" /\ script[1].status < 400

Got(script) ==
    IF RequestOk(script) THEN [ok |-> TRUE, value |-> script[1].value]
    ELSE [ok |-> FALSE, value |-> <<>>]

\* lines 171-173 and 194-196: `if not puuid: raise ValueError`
HasPuuid(a) == a.puuid # <<>>

\* the exception one stats request ends with, "None" when it returns:
\* requests.get raising (a timeout) or raise_for_status raising (4xx, 5xx)
RequestExc(script) ==
    IF script[1].kind = "Timeout" THEN "Timeout"
    ELSE IF script[1].status >= 400 THEN "HTTPError"
    ELSE "None"

\* an except clause that absorbs only the missing-puuid error
Catches_ValueErrorOnly(exc) == exc = "ValueError"

\* lines 363, 381, 389: `except Exception: pass`
Catches(exc) == TRUE

\* lines 186-187: len(resp.json())
CountOf(body) == Len(body)

\* line 216: f"{tier} {rank} - {lp} LP"
FormatElo(e) ==
    e.tier \o <<" ">> \o e.rank \o <<" ", "-", " ">> \o StrOfNat(e.leaguePoints)
        \o <<" ", "L", "P">>

\* lines 211-217: the first RANKED_SOLO_5x5 entry, formatted, or "Unranked"
RECURSIVE EloOfEntries(_)
EloOfEntries(entries) ==
    IF entries = <<>> THEN Str_Unranked
    ELSE IF entries[1].queueType = Str_SoloQueue THEN FormatElo(entries[1])
    ELSE EloOfEntries(Tail(entries))

\* lines 315-320: "No games", or strftime("%d %b - %H:%M") in Europe/Paris
\* (UTC+1 at the epoch; exact for timestamps of the epoch's first day)
TwoDigits(n) == <<Digits[(n \div 10) + 1], Digits[(n % 10) + 1]>>
FormatTsMs(ms) ==
    IF ms = 0 THEN Str_NoGames
    ELSE LET minutes == ms \div 60000
         IN  <<"0", "1", " ", "J", "a", "n", " ", "-", " ">>
                 \o TwoDigits(1 + (minutes \div 60)) \o <<":">> \o TwoDigits(minutes % 60)

-----------------------------------------------------------------------------
(* PlayerAggregator: build_player_rows, lines 342-404 *)

Account(name, puuid) == [account_name |-> name, puuid |-> puuid]

Unresolved == Account(<<"N", "#", "T">>, <<>>)
Resolved == Account(<<"N", "#", "T">>, <<"u">>)

\* the accounts of the player whose accounts may carry a puuid: 0..MaxAccounts
ResolvedLists == UNION { [1..n -> {Unresolved, Resolved}] : n \in 0..MaxAccounts }
\* the accounts of the other players: none, or one without puuid (the roster
\* JSON as bot.py passes it on carries no puuid)
UnresolvedLists == { <<>>, <<Unresolved>> }

\* rosters: 1..MaxPlayers players in insertion order, one of whom (player r)
\* may have accounts with a puuid
Rosters ==
    UNION { { [p \in 1..n |-> [player |-> <<"P", Digits[p + 1]>>, accounts |-> f[p]]]
                : f \in UNION { { g \in [1..n -> ResolvedLists \cup UnresolvedLists] :
                                    \A p \in 1..n : p # r => g[p] \in UnresolvedLists }
                                : r \in 1..n } }
            : n \in 1..MaxPlayers }

NoTally == [c24 |-> 0, c7 |-> 0, ts |-> {}, elos |-> <<>>, failed |-> 0, full |-> 0,
            cur_any |-> FALSE, cur_all |-> TRUE]

accounts == players_accounts[pi].accounts
acc == accounts[ai]


\* line 348
InitBuild ==
    /\ players_accounts \in Rosters
    /\ rows = <<>>
    /\ pi = 1
    /\ ai = 0
    /\ bpc = "player"
    /\ games_24 = 0
    /\ games_7 = 0
    /\ last_game_ts_ms = 0
    /\ acc_elos = <<>>
    /\ raised = "None"
    /\ ops = <<>>
    /\ tally = NoTally
    /\ transport \in Transports
    \* get_ids is not running
    /\ retries = 0
    /\ backoff = <<3, 2>>
    /\ attempt = 1
    /\ fpc = "idle"
    /\ resp = NoResponse
    /\ sleep_s = <<0, 1>>
    /\ last_exc = NoExc
    /\ result = NoResult
    /\ n_requests = 0
    /\ n_sleeps = 0
    /\ n_retryable = 0
    /\ net_failure = NoExc
    \* hydrate_players_accounts, max_elo and format_players_report are not running
    /\ disk = [kind |-> "absent", entries |-> <<>>, size |-> 0]
    /\ hyd = <<>>
    /\ rank_elos = <<>>
    /\ rank_best = <<>>
    /\ kpc = "idle"
    /\ table_rows = <<>>
    /\ report = <<>>
    /\ widths = <<>>
    /\ tpc = "idle"

\* lines 349-357: the next player; accounts[0] of an empty list raises
StartPlayer ==
    /\ bpc = "player"
    /\ pi <= Len(players_accounts)
    /\ games_24' = 0
    /\ games_7' = 0
    /\ last_game_ts_ms' = 0
    /\ acc_elos' = <<>>
    /\ ops' = <<>>
    /\ tally' = NoTally
    /\ IF accounts = <<>>
       THEN /\ raised' = "IndexError"
            /\ bpc' = "raised"
            /\ ai' = 0
       ELSE /\ bpc' = "counts"
            /\ ai' = 1
            /\ UNCHANGED raised
    /\ UNCHANGED <<players_accounts, rows, pi, transport>>
    /\ UNCHANGED <<fvars, hvars, kvars, tvars>>

\* the counts after the try block of lines 360-364, given the responses to
\* the 24-hour and the 7-day listing
CountsAfter(g24, g7, has_puuid, s24, s7) ==
    IF ~has_puuid \/ ~RequestOk(s24) THEN <<g24, g7>>
    ELSE IF ~RequestOk(s7) THEN <<g24 + CountOf(s24[1].value), g7>>
    ELSE <<g24 + CountOf(s24[1].value), g7 + CountOf(s7[1].value)>>

\* lines 358-364: both counts in one try block
AccCounts ==
    /\ bpc = "counts"
    /\ \E s24 \in transport.count, s7 \in transport.count :
        /\ LET exc == IF ~HasPuuid(acc) THEN "ValueError"
                      ELSE IF ~RequestOk(s24) THEN RequestExc(s24)
                      ELSE RequestExc(s7)
           IN  IF exc # "None" /\ ~Catches(exc)
               THEN raised' = exc /\ bpc' = "raised"
               ELSE raised' = raised /\ bpc' = "last"
        /\ games_24' = CountsAfter(games_24, games_7, HasPuuid(acc), s24, s7)[1]
        /\ games_7' = CountsAfter(games_24, games_7, HasPuuid(acc), s24, s7)[2]
        /\ ops' = IF ~HasPuuid(acc) THEN <<>>
                  ELSE IF ~RequestOk(s24)
                       THEN << [req |-> "count24", script |-> s24, got |-> Got(s24)] >>
                       ELSE << [req |-> "count24", script |-> s24, got |-> Got(s24)],
                               [req |-> "count7", script |-> s7, got |-> Got(s7)] >>
        /\ LET a24 == HasPuuid(acc) /\ s24[1].status = 200
               a7 == HasPuuid(acc) /\ s7[1].status = 200
           IN  tally' = [tally EXCEPT
                           !.c24 = IF a24 THEN @ + Len(s24[1].value) ELSE @,
                           !.c7 = IF a7 THEN @ + Len(s7[1].value) ELSE @,
                           !.cur_any = a24 \/ a7,
                           !.cur_all = a24 /\ a7]
    /\ UNCHANGED <<players_accounts, rows, pi, ai, last_game_ts_ms, acc_elos, transport>>
    /\ UNCHANGED <<fvars, hvars, kvars, tvars>>

\* a merge that keeps the timestamp of the last account that returned one
NewestTs_LastWins(last, ms) == IF ms # 0 THEN ms ELSE last

\* lines 378-380: ms = ....get("gameStartTimestamp", 0); keep the newest
NewestTs(last, ms) == IF ms # 0 /\ ms > last THEN ms ELSE last

\* lines 366-382: the last match id, then its detail
AccLastGame ==
    /\ bpc = "last"
    /\ \E sIds \in transport.ids, sDet \in transport.detail :
        LET ids_ok == HasPuuid(acc) /\ RequestOk(sIds) /\ sIds[1].value # <<>>
            det_ok == ids_ok /\ RequestOk(sDet)
            exc == IF ~HasPuuid(acc) THEN "None"
                   ELSE IF ~RequestOk(sIds) THEN RequestExc(sIds)
                   ELSE IF sIds[1].value = <<>> THEN "None"
                   ELSE RequestExc(sDet)
        IN  /\ IF exc # "None" /\ ~Catches(exc)
               THEN raised' = exc /\ bpc' = "raised"
               ELSE raised' = raised /\ bpc' = "elo"
            /\ last_game_ts_ms' = IF det_ok THEN NewestTs(last_game_ts_ms, sDet[1].value)
                                  ELSE last_game_ts_ms
            /\ ops' = IF ~HasPuuid(acc) THEN <<>>
                      ELSE IF ~ids_ok
                           THEN << [req |-> "ids", script |-> sIds, got |-> Got(sIds)] >>
                           ELSE << [req |-> "ids", script |-> sIds, got |-> Got(sIds)],
                                   [req |-> "detail", script |-> sDet, got |-> Got(sDet)] >>
            /\ LET returned == /\ HasPuuid(acc)
                               /\ sIds[1].status = 200 /\ sIds[1].value # <<>>
                               /\ sDet[1].status = 200 /\ sDet[1].value # 0
               IN  tally' = [tally EXCEPT
                               !.ts = IF returned THEN @ \cup {sDet[1].value} ELSE @,
                               !.cur_any = @ \/ returned,
                               !.cur_all = @ /\ returned]
    /\ UNCHANGED <<players_accounts, rows, pi, ai, games_24, games_7, acc_elos, transport>>
    /\ UNCHANGED <<fvars, hvars, kvars, tvars>>

\* lines 385-390: acc_elos after the try block around get_current_elo
ElosAfter(elos, has_puuid, sLeague) ==
    IF has_puuid /\ RequestOk(sLeague) /\ EloOfEntries(sLeague[1].value) # <<>>
    THEN Append(elos, EloOfEntries(sLeague[1].value))
    ELSE elos

\* lines 384-390, and the for loop of line 357 moving on
AccElo ==
    /\ bpc = "elo"
    /\ \E sLeague \in transport.league :
        /\ LET exc == IF ~HasPuuid(acc) THEN "ValueError" ELSE RequestExc(sLeague)
           IN  IF exc # "None" /\ ~Catches(exc)
               THEN raised' = exc /\ bpc' = "raised" /\ ai' = ai
               ELSE /\ raised' = raised
                    /\ IF ai < Len(accounts)
                       THEN ai' = ai + 1 /\ bpc' = "counts"
                       ELSE ai' = ai /\ bpc' = "row"
        /\ acc_elos' = ElosAfter(acc_elos, HasPuuid(acc), sLeague)
        /\ ops' = IF ~HasPuuid(acc) THEN <<>>
                  ELSE << [req |-> "league", script |-> sLeague, got |-> Got(sLeague)] >>
        /\ LET answered == HasPuuid(acc) /\ sLeague[1].status = 200
               any == tally.cur_any \/ answered
               all == tally.cur_all /\ answered
           IN  tally' = [tally EXCEPT
                           !.elos = IF answered
                                    THEN Append(@, EloOfEntries(sLeague[1].value)) ELSE @,
                           !.failed = IF any THEN @ ELSE @ + 1,
                           !.full = IF all THEN @ + 1 ELSE @,
                           !.cur_any = FALSE,
                           !.cur_all = TRUE]
    /\ UNCHANGED <<players_accounts, rows, pi, games_24, games_7, last_game_ts_ms,
                   transport>>
    /\ UNCHANGED <<fvars, hvars, kvars, tvars>>

\* line 393
BestElo(elos) == IF elos # <<>> THEN max_elo(elos) ELSE Str_Unranked

\* lines 392-403
RowOf(player, g24, g7, ts, elos, main) ==
    [ Player |-> player,
      Games24 |-> g24,
      Games7 |-> g7,
      LastGame |-> IF ts # 0 THEN FormatTsMs(ts) ELSE Str_NoGames,
      Elo |-> BestElo(elos),
      Main |-> main,
      Emoji |-> Str_Emoji ]

\* lines 392-403: the player's row is appended
AppendRow ==
    /\ bpc = "row"
    /\ rows' = Append(rows, RowOf(players_accounts[pi].player, games_24, games_7,
                                  last_game_ts_ms, acc_elos, accounts[1].account_name))
    /\ pi' = pi + 1
    /\ bpc' = "player"
    /\ UNCHANGED <<players_accounts, ai, games_24, games_7, last_game_ts_ms, acc_elos,
                   raised, ops, tally, transport>>
    /\ UNCHANGED <<fvars, hvars, kvars, tvars>>

\* line 404: return rows
BuildReturn ==
    /\ bpc = "player"
    /\ pi > Len(players_accounts)
    /\ bpc' = "done"
    /\ UNCHANGED <<players_accounts, rows, pi, ai, games_24, games_7, last_game_ts_ms,
                   acc_elos, raised, ops, tally, transport>>
    /\ UNCHANGED <<fvars, hvars, kvars, tvars>>

-----------------------------------------------------------------------------
(* IdentityResolver: get_ids as hydrate_players_accounts calls it *)

\* line 45: the default of `retries`
DefaultRetries == 10

\* line 119: the default of `region`
Region == <<"e", "u", "r", "o", "p", "e">>

\* lines 55-56: game_name.split("#", 1) at the first "#" when no tag_line
\* was passed and the name holds one
SplitLabel(game_name, tag_line) ==
    IF tag_line = PyNone /\ \E i \in 1..Len(game_name) : game_name[i] = "#"
    THEN LET at == CHOOSE i \in 1..Len(game_name) :
                      game_name[i] = "#" /\ \A j \in 1..(i - 1) : game_name[j] # "#"
         IN  [game_name |-> SubSeq(game_name, 1, at - 1),
              tag_line |-> SubSeq(game_name, at + 1, Len(game_name))]
    ELSE [game_name |-> game_name, tag_line |-> tag_line]

\* lines 58 and 138: `not tag_line`, `not account_name`
PyNot(v) == v = PyNone \/ v = <<>>

\* lines 71-99: the loop from attempt a on, and the requests it has issued;
\* request number a is answered by script[a], the last response repeating
RECURSIVE GetIdsLoop(_, _, _, _)
GetIdsLoop(script, a, n, last) ==
    IF a > n THEN [result |-> ExhaustedError(n, last), requests |-> a - 1]
    ELSE LET o == script[IF a <= Len(script) THEN a ELSE Len(script)]
         IN  IF Disposition(o) = "return"
             THEN [result |-> ReturnValue(o), requests |-> a]
             ELSE IF Disposition(o) = "api_error"
             THEN [result |-> ApiError(o), requests |-> a]
             ELSE GetIdsLoop(script, NextAttempt(a, o), n, NextLastExc(o, a, last))

\* lines 40-99: one call of get_ids; line 59 raises ValueError before any
\* request
get_ids(game_name, tag_line, n, script) ==
    IF PyNot(SplitLabel(game_name, tag_line).tag_line)
    THEN [result |-> [NoResult EXCEPT !.kind = "value_error"], requests |-> 0]
    ELSE GetIdsLoop(script, 1, n, NoExc)

\* an account record whose puuid is empty
BlankPayload == [gameName |-> "Name", tagLine |-> "TAG", puuid |-> ""]

\* what the account endpoint can answer to the requests of one lookup
LookupScripts ==
    { << HttpResponse(200, <<>>, b) >> : b \in Payloads \cup {BlankPayload} }
    \cup
    { << HttpResponse(503, <<>>, NoPayload),
         HttpResponse(200, <<>>, [gameName |-> "Name", tagLine |-> "TAG", puuid |-> "puuid-1"]) >>,
      << HttpResponse(404, <<>>, NoPayload) >>,
      << HttpResponse(503, <<>>, NoPayload) >> }

-----------------------------------------------------------------------------
(* IdentityCache: _load_json, _save_json, lines 102-113 *)

\* a cached value that is not a JSON object
NotARecord == [gameName |-> "<str>", tagLine |-> "<str>", puuid |-> "<str>"]
\* cache.get(key) of a key the cache does not hold
NoEntry == [gameName |-> "<None>", tagLine |-> "<None>", puuid |-> "<None>"]
\* an identity a previous run stored
StoredPayload == [gameName |-> "Name", tagLine |-> "TAG", puuid |-> "puuid-0"]

EmptyDict == [kind |-> "dict", entries |-> <<>>]

\* a load that starts every run from an empty cache
LoadJson_Fresh(file) == EmptyDict

\* lines 102-108: {} for a missing or unparseable file, else the JSON value
LoadJson(file) ==
    IF file.kind \in {"absent", "malformed"} THEN EmptyDict
    ELSE [kind |-> file.kind, entries |-> file.entries]

\* line 113: the number of characters of json.dumps(data, ensure_ascii=False,
\* indent=2): "{}" or "[]" for an empty value, else "{\n", the items
\*   "<key>": {\n    "gameName": "..",\n    "tagLine": "..",\n    "puuid": ".."\n  }
\* joined by ",\n", and "\n}"; a value that is not an object is the JSON
\* string "<str>"
RECURSIVE DumpsLen(_)
DumpsLen(data) ==
    IF data.kind = "list" \/ DOMAIN data.entries = {} THEN 2
    ELSE LET k == CHOOSE x \in DOMAIN data.entries : TRUE
             e == data.entries[k]
             value == IF e = NotARecord THEN 7
                      ELSE 60 + Len(e.gameName) + Len(e.tagLine) + Len(e.puuid)
             rest == [kind |-> data.kind,
                      entries |-> [x \in DOMAIN data.entries \ {k} |-> data.entries[x]]]
         IN  IF DOMAIN rest.entries = {} THEN 2 + (Len(k) + 6 + value) + 2
             ELSE (Len(k) + 6 + value) + 2 + DumpsLen(rest)

\* line 113, f.write of path.write_text: the text of `data` is written from
\* offset 0 of the file this run opened and emptied; when another run has
\* written a longer text since, the tail of that text stays behind it
SaveJson(file, data) ==
    IF DumpsLen(data) >= file.size
    THEN [kind |-> data.kind, entries |-> data.entries, size |-> DumpsLen(data)]
    ELSE [kind |-> "malformed", entries |-> <<>>, size |-> file.size]

\* line 142: f"{region}:{account_name}"
CacheKey(region, account_name) == region \o <<":">> \o account_name

\* line 143: cache.get(cache_key)
CacheGet(entries, key) == IF key \in DOMAIN entries THEN entries[key] ELSE NoEntry

\* line 146: cache[cache_key] = ids
CachePut(entries, key, ids) ==
    [k \in DOMAIN entries \cup {key} |-> IF k = key THEN ids ELSE entries[k]]

\* a test that takes any cached record for a hit
CacheMiss_AnyRecord(ids) == ids \in {NotARecord, NoEntry}

\* line 144: `not isinstance(ids, dict) or not ids.get("puuid")`
CacheMiss(ids) == ids \in {NotARecord, NoEntry} \/ ids.puuid = ""


-----------------------------------------------------------------------------
(* IdentityResolver: hydrate_players_accounts, lines 116-159 *)

Label_NT == <<"N", "#", "T">>

\* the account_name values of a roster: two labels, a label without "#", a
\* label with an empty tag, "" and a missing key
AccountNames == { Label_NT, <<"M", "#", "T">>, <<"N">>, <<"N", "#">>, <<>>, PyNone }

\* rosters: 1..MaxPlayers players in insertion order; one of them (player r)
\* has 0..MaxAccounts accounts of any name, the others one account with a
\* good label
HydrateRosters ==
    UNION { { [p \in 1..n |-> [player |-> <<"P", Digits[p + 1]>>,
                               accounts |-> IF p = r THEN l
                                            ELSE << Account(Label_NT, <<>>) >>]]
                : r \in 1..n,
                  l \in UNION { [1..m -> { Account(a, <<>>) : a \in AccountNames }]
                                  : m \in 0..MaxAccounts } }
            : n \in 1..MaxPlayers }

\* the cache file before the run: missing, not JSON, a JSON list, or a JSON
\* object with entries a previous run (or an editor) left
CacheFiles ==
    { [kind |-> f.kind, entries |-> f.entries,
       size |-> IF f.kind = "absent" THEN 0
                ELSE IF f.kind = "malformed" THEN 8
                ELSE DumpsLen(f)] :
        f \in { [kind |-> k, entries |-> <<>>] : k \in {"absent", "malformed", "list"} }
              \cup { [kind |-> "dict", entries |-> e] :
                       e \in { [k \in K |-> IF k = CacheKey(Region, <<"M", "#", "T">>)
                                               THEN StoredPayload ELSE v]
                                 : K \in SUBSET { CacheKey(Region, Label_NT),
                                                  CacheKey(Region, <<"M", "#", "T">>) },
                                   v \in { StoredPayload, BlankPayload, NotARecord } } } }

\* what the last pass of lines 137-155 did: the key, the cache before it, and
\* the call of get_ids it made, if any
NoStep == [n |-> 0, key |-> <<>>, prev |-> <<>>, called |-> FALSE,
           result |-> NoResult, requests |-> 0]

\* lines 130-132 are about to run; `seen` will hold where every run was when
\* this one read the cache file
NewRun(roster) ==
    [ pc |-> "load", players_accounts |-> roster, hydrated |-> <<>>,
      cache |-> EmptyDict, pi |-> 0, ai |-> 0, raised |-> "None",
      loaded |-> EmptyDict, reads |-> 0, writes |-> 0, requests |-> 0,
      resolved |-> <<>>, step |-> NoStep, seen |-> <<>> ]

InitHydrate ==
    /\ disk \in CacheFiles
    /\ hyd \in { << NewRun(roster) >> : roster \in HydrateRosters }
    \* get_ids alone, build_player_rows, max_elo and format_players_report
    \* are not running
    /\ retries = 0
    /\ backoff = <<3, 2>>
    /\ attempt = 1
    /\ fpc = "idle"
    /\ resp = NoResponse
    /\ sleep_s = <<0, 1>>
    /\ last_exc = NoExc
    /\ result = NoResult
    /\ n_requests = 0
    /\ n_sleeps = 0
    /\ n_retryable = 0
    /\ net_failure = NoExc
    /\ players_accounts = <<>>
    /\ rows = <<>>
    /\ pi = 0
    /\ ai = 0
    /\ bpc = "idle"
    /\ games_24 = 0
    /\ games_7 = 0
    /\ last_game_ts_ms = 0
    /\ acc_elos = <<>>
    /\ raised = "None"
    /\ ops = <<>>
    /\ tally = <<>>
    /\ transport = [count |-> {}, ids |-> {}, detail |-> {}, league |-> {}]
    /\ rank_elos = <<>>
    /\ rank_best = <<>>
    /\ kpc = "idle"
    /\ table_rows = <<>>
    /\ report = <<>>
    /\ widths = <<>>
    /\ tpc = "idle"

\* lines 130-132: the cache file is read
HydrateLoad ==
    \E r \in DOMAIN hyd :
        /\ hyd[r].pc = "load"
        /\ hyd' = [hyd EXCEPT ![r] = [@ EXCEPT !.cache = LoadJson(disk),
                                                !.loaded = LoadJson(disk),
                                                !.reads = @ + 1,
                                                !.seen = [q \in DOMAIN hyd |-> hyd[q].pc],
                                                !.pi = 1,
                                                !.pc = "player"]]
        /\ UNCHANGED <<disk, fvars, bvars, kvars, tvars>>

\* lines 134-136: the next player, hydrated[player] = []
HydratePlayer ==
    \E r \in DOMAIN hyd :
        /\ hyd[r].pc = "player"
        /\ hyd[r].pi <= Len(hyd[r].players_accounts)
        /\ LET h == hyd[r]
               p == h.players_accounts[h.pi]
           IN  hyd' = [hyd EXCEPT ![r] =
                         [h EXCEPT !.hydrated = Append(@, [player |-> p.player, accounts |-> <<>>]),
                                   !.pi = IF p.accounts = <<>> THEN @ + 1 ELSE @,
                                   !.ai = IF p.accounts = <<>> THEN 0 ELSE 1,
                                   !.pc = IF p.accounts = <<>> THEN "player" ELSE "account"]]
        /\ UNCHANGED <<disk, fvars, bvars, kvars, tvars>>

\* lines 134 and 136: the two for loops move on after account ai of player pi
AfterAccount(h) ==
    IF h.ai < Len(h.players_accounts[h.pi].accounts)
    THEN [h EXCEPT !.ai = @ + 1]
    ELSE [h EXCEPT !.pi = @ + 1, !.ai = 0, !.pc = "player"]

\* lines 148-155: hydrated[player].append(...)
AppendHydrated(h, account_name, ids) ==
    [h EXCEPT !.hydrated[h.pi].accounts =
                  Append(@, [account_name |-> account_name, game_name |-> ids.gameName,
                             tag_line |-> ids.tagLine, puuid |-> ids.puuid])]

\* an exception leaves hydrate_players_accounts
RaiseFrom(h, exc) == [h EXCEPT !.raised = exc, !.pc = "raised"]

\* lines 137-155: one account
HydrateAccount ==
    \E r \in DOMAIN hyd :
        /\ hyd[r].pc = "account"
        /\ LET h == hyd[r]
               account_name == h.players_accounts[h.pi].accounts[h.ai].account_name
               cache_key == CacheKey(Region, account_name)
               ids == CacheGet(h.cache.entries, cache_key)
               step == [NoStep EXCEPT !.n = h.step.n + 1, !.prev = h.cache.entries]
           IN  IF PyNot(account_name)
               THEN hyd' = [hyd EXCEPT ![r] = RaiseFrom([h EXCEPT !.step = step], "ValueError: Missing account_name")]
               ELSE IF h.cache.kind # "dict"
               THEN hyd' = [hyd EXCEPT ![r] =
                              RaiseFrom([h EXCEPT !.step = [step EXCEPT !.key = cache_key]],
                                        "AttributeError")]
               ELSE IF ~CacheMiss(ids)
               THEN hyd' = [hyd EXCEPT ![r] =
                              AfterAccount(AppendHydrated(
                                  [h EXCEPT !.step = [step EXCEPT !.key = cache_key]],
                                  account_name, ids))]
               ELSE \E script \in LookupScripts :
                      LET call == get_ids(account_name, PyNone, DefaultRetries, script)
                          done == [h EXCEPT !.step = [step EXCEPT !.key = cache_key,
                                                                  !.called = TRUE,
                                                                  !.result = call.result,
                                                                  !.requests = call.requests],
                                            !.requests = @ + call.requests]
                      IN  IF call.result.kind = "return"
                          THEN hyd' = [hyd EXCEPT ![r] =
                                         AfterAccount(AppendHydrated(
                                             [done EXCEPT !.cache.entries =
                                                              CachePut(@, cache_key, call.result.value),
                                                          !.resolved =
                                                              CachePut(@, cache_key, call.result.value)],
                                             account_name, call.result.value))]
                          ELSE hyd' = [hyd EXCEPT ![r] = RaiseFrom(done, call.result.kind)]
        /\ UNCHANGED <<disk, fvars, bvars, kvars, tvars>>

\* lines 157-158 and 111-113, open(mode="w") of path.write_text: the loop is
\* over, the text of the cache is built and the file is created or emptied
HydrateOpen ==
    \E r \in DOMAIN hyd :
        /\ hyd[r].pc = "player"
        /\ hyd[r].pi > Len(hyd[r].players_accounts)
        /\ disk' = [kind |-> "malformed", entries |-> <<>>, size |-> 0]
        /\ hyd' = [hyd EXCEPT ![r] = [@ EXCEPT !.pc = "write"]]
        /\ UNCHANGED <<fvars, bvars, kvars, tvars>>

\* lines 113 and 159: the text is written, the file closed, the roster returned
HydrateSave ==
    \E r \in DOMAIN hyd :
        /\ hyd[r].pc = "write"
        /\ disk' = SaveJson(disk, hyd[r].cache)
        /\ hyd' = [hyd EXCEPT ![r] = [@ EXCEPT !.writes = @ + 1, !.pc = "returned"]]
        /\ UNCHANGED <<fvars, bvars, kvars, tvars>>

NextHydrate == HydrateLoad \/ HydratePlayer \/ HydrateAccount \/ HydrateOpen \/ HydrateSave

SpecHydrate == InitHydrate /\ [][NextHydrate]_vars

-----------------------------------------------------------------------------
(* Two runs of hydrate_players_accounts on the same cache file *)

\* rosters of one player whose accounts are resolved under two labels, plus
\* one with a label get_ids cannot split
OverlapRosters ==
    { << [player |-> <<"P", "1">>, accounts |-> l] >> :
        l \in { << Account(Label_NT, <<>>) >>,
                << Account(<<"M", "#", "T">>, <<>>) >>,
                << Account(Label_NT, <<>>), Account(<<"M", "#", "T">>, <<>>) >>,
                << Account(<<"N">>, <<>>) >> } }

\* two calls are about to run lines 130-132 against the same cache_path; their
\* steps interleave in any order, the read of _load_json being one step and
\* the open and the write of _save_json one step each
InitOverlap ==
    /\ disk \in CacheFiles
    /\ hyd \in { << NewRun(a), NewRun(b) >> : a \in OverlapRosters, b \in OverlapRosters }
    \* get_ids alone, build_player_rows, max_elo and format_players_report
    \* are not running
    /\ retries = 0
    /\ backoff = <<3, 2>>
    /\ attempt = 1
    /\ fpc = "idle"
    /\ resp = NoResponse
    /\ sleep_s = <<0, 1>>
    /\ last_exc = NoExc
    /\ result = NoResult
    /\ n_requests = 0
    /\ n_sleeps = 0
    /\ n_retryable = 0
    /\ net_failure = NoExc
    /\ players_accounts = <<>>
    /\ rows = <<>>
    /\ pi = 0
    /\ ai = 0
    /\ bpc = "idle"
    /\ games_24 = 0
    /\ games_7 = 0
    /\ last_game_ts_ms = 0
    /\ acc_elos = <<>>
    /\ raised = "None"
    /\ ops = <<>>
    /\ tally = <<>>
    /\ transport = [count |-> {}, ids |-> {}, detail |-> {}, league |-> {}]
    /\ rank_elos = <<>>
    /\ rank_best = <<>>
    /\ kpc = "idle"
    /\ table_rows = <<>>
    /\ report = <<>>
    /\ widths = <<>>
    /\ tpc = "idle"

SpecOverlap == InitOverlap /\ [][NextHydrate]_vars

-----------------------------------------------------------------------------
(* RankComparator: max_elo applied to a list of rank strings *)

\* longest list of rank strings explored
MaxElos == 3

\* the string get_current_elo returns for a solo-queue entry (line 216)
Produced(t, d, lp) == FormatElo(LeagueEntry(Str_SoloQueue, TIERS[t], d, lp))

\* "<TIER> - <LP> LP": a rank string without a division
Undivided(t, lp) == TIERS[t] \o <<" ", "-", " ">> \o StrOfNat(lp) \o <<" ", "L", "P">>

\* "<TIER> <DIVISION> (<LP> LP)": the LP in parentheses
Parenthesised(t, d, lp) ==
    TIERS[t] \o <<" ">> \o d \o <<" ", "(">> \o StrOfNat(lp) \o <<" ", "L", "P", ")">>

\* rank strings of every tier, of several divisions and LP values, in the
\* format get_current_elo produces and in the other formats _parse_elo reads
RankStrings ==
    { Produced(t, <<"I">>, 10) : t \in 1..Len(TIERS) }
    \cup { Produced(t, d, lp) : t \in {4, 7}, d \in {<<"I", "V">>, <<"I", "I">>}, lp \in {10, 90} }
    \cup { Produced(3, <<"I", "I", "I">>, 40), Produced(7, <<"I">>, 100),
           Undivided(8, 0), Undivided(9, 0), Undivided(10, 0),
           Parenthesised(7, <<"I">>, 100), Parenthesised(8, <<"I">>, 0),
           Str_Unranked }

\* the arguments of max_elo: every pair of rank strings, and every list of up
\* to MaxElos strings of a smaller set
RankLists ==
    { <<a, b>> : a \in RankStrings, b \in RankStrings }
    \cup UNION { [1..n -> { Produced(3, <<"I", "I", "I">>, 40), Produced(4, <<"I", "V">>, 10),
                            Str_Unranked, Parenthesised(4, <<"I", "V">>, 10),
                            Parenthesised(4, <<"I", "V">>, 90), <<>> }]
                    : n \in 0..MaxElos }

\* max_elo is about to be called
InitRank ==
    /\ rank_elos \in RankLists
    /\ rank_best = <<>>
    /\ kpc = "call"
    \* get_ids, build_player_rows, hydrate_players_accounts and
    \* format_players_report are not running
    /\ retries = 0
    /\ backoff = <<3, 2>>
    /\ attempt = 1
    /\ fpc = "idle"
    /\ resp = NoResponse
    /\ sleep_s = <<0, 1>>
    /\ last_exc = NoExc
    /\ result = NoResult
    /\ n_requests = 0
    /\ n_sleeps = 0
    /\ n_retryable = 0
    /\ net_failure = NoExc
    /\ players_accounts = <<>>
    /\ rows = <<>>
    /\ pi = 0
    /\ ai = 0
    /\ bpc = "idle"
    /\ games_24 = 0
    /\ games_7 = 0
    /\ last_game_ts_ms = 0
    /\ acc_elos = <<>>
    /\ raised = "None"
    /\ ops = <<>>
    /\ tally = <<>>
    /\ transport = [count |-> {}, ids |-> {}, detail |-> {}, league |-> {}]
    /\ disk = [kind |-> "absent", entries |-> <<>>, size |-> 0]
    /\ hyd = <<>>
    /\ table_rows = <<>>
    /\ report = <<>>
    /\ widths = <<>>
    /\ tpc = "idle"

\* lines 260-271: max_elo(acc_elos) returns
MaxEloCall ==
    /\ kpc = "call"
    /\ rank_best' = max_elo(rank_elos)
    /\ kpc' = "returned"
    /\ UNCHANGED <<rank_elos, fvars, bvars, hvars, tvars>>

SpecRank == InitRank /\ [][MaxEloCall]_vars

-----------------------------------------------------------------------------
(* ReportRenderer: format_players_report, lines 276-313 *)

\* largest number of rows of a report explored
MaxRows == 2

\* line 282
Headers == << <<"P", "l", "a", "y", "e", "r">>,
              <<"G", "a", "m", "e", "s", " ", "2", "4", " ", "H", "o", "u", "r", "s">>,
              <<"G", "a", "m", "e", "s", " ", "7", " ", "d", "a", "y", "s">>,
              <<"L", "a", "s", "t", " ", "G", "a", "m", "e">>,
              <<"C", "u", "r", "r", "e", "n", "t", " ", "E", "l", "o">>,
              <<"M", "a", "i", "n", " ", "A", "c", "c", "o", "u", "n", "t">>,
              <<"R", "e", "h", "a", " ", "h", "a", "p", "p", "y">> >>
\* line 283
Cols == <<"Player", "Games24", "Games7", "LastGame", "Elo", "Main", "Emoji">>

\* the values of a row: a string, an int, None, or no such key
StrCell(s) == [t |-> "str", s |-> s, n |-> 0]
IntCell(n) == [t |-> "int", s |-> <<>>, n |-> n]
NoneCell == [t |-> "none", s |-> <<>>, n |-> 0]
MissingCell == [t |-> "missing", s |-> <<>>, n |-> 0]

\* r.get(c, "")
RowGet(r, c) == IF r[c] = MissingCell THEN StrCell(<<>>) ELSE r[c]

\* str(v)
PyStr(v) ==
    IF v.t = "int" THEN StrOfNat(v.n)
    ELSE IF v.t = "none" THEN <<"N", "o", "n", "e">>
    ELSE v.s

\* line 290: str(r.get(c, "")) if r.get(c, "") is not None else ""
MeasuredText(r, c) == IF RowGet(r, c) # NoneCell THEN PyStr(RowGet(r, c)) ELSE <<>>

\* lines 302-308: str(r.get(c, ""))
RenderedText(r, c) == PyStr(RowGet(r, c))

\* s.ljust(w) and s.rjust(w)
Ljust(s, w) == IF Len(s) >= w THEN s ELSE s \o [i \in 1..(w - Len(s)) |-> " "]
Rjust(s, w) == IF Len(s) >= w THEN s ELSE [i \in 1..(w - Len(s)) |-> " "] \o s

\* a width that is the header's length, whatever the rows hold
ColumnWidth_HeaderOnly(h, c, rs) == Len(h)

\* lines 288-292: maxw = len(h); for r in rows: maxw = max(maxw, len(v))
RECURSIVE ColumnWidth(_, _, _)
ColumnWidth(h, c, rs) ==
    IF rs = <<>> THEN Len(h)
    ELSE LET maxw == ColumnWidth(h, c, SubSeq(rs, 1, Len(rs) - 1))
             v == MeasuredText(rs[Len(rs)], c)
         IN  IF Len(v) > maxw THEN Len(v) ELSE maxw

\* lines 286-292
Widths(rs) == [k \in 1..Len(Cols) |-> ColumnWidth(Headers[k], Cols[k], rs)]

\* "  ".join(parts)
RECURSIVE JoinCells(_)
JoinCells(parts) ==
    IF Len(parts) = 1 THEN parts[1]
    ELSE parts[1] \o <<" ", " ">> \o JoinCells(Tail(parts))

\* lines 301-310: Games24 and Games7 are right-aligned, the others left-aligned
RowLine(r, ws) ==
    JoinCells([k \in 1..Len(Cols) |->
                  IF Cols[k] \in {"Games24", "Games7"}
                  THEN Rjust(RenderedText(r, Cols[k]), ws[k])
                  ELSE Ljust(RenderedText(r, Cols[k]), ws[k])])

\* lines 295-296 and 312-313: the header line, the separator line and the
\* row lines of the returned string
ReportLines(rs, ws) ==
    << JoinCells([k \in 1..Len(Headers) |-> Ljust(Headers[k], ws[k])]),
       JoinCells([k \in 1..Len(ws) |-> [i \in 1..ws[k] |-> "-"]]) >>
    \o [i \in 1..Len(rs) |-> RowLine(rs[i], ws)]

\* the rows a report can be asked to render: rows as build_player_rows
\* appends them and rows with None values and missing keys
TableRowSet ==
    { [Player |-> p, Games24 |-> g[1], Games7 |-> g[2], LastGame |-> g[3],
       Elo |-> e, Main |-> g[4], Emoji |-> g[5]]
        : p \in { StrCell(<<"P", "1">>), StrCell(<<"L", "o", "n", "g", "P", "l", "a", "y", "e", "r">>) },
          e \in { NoneCell, MissingCell, StrCell(Str_Unranked),
                  StrCell(FormatElo(SoloGold)) },
          g \in { << IntCell(0), IntCell(0), StrCell(Str_NoGames),
                     StrCell(<<"N", "#", "T">>), StrCell(Str_Emoji) >>,
                  << IntCell(100), MissingCell, StrCell(FormatTsMs(60000)),
                     NoneCell, MissingCell >> } }

InitRender ==
    /\ table_rows \in UNION { [1..n -> TableRowSet] : n \in 0..MaxRows }
    /\ report = <<>>
    /\ widths = <<>>
    /\ tpc = "call"
    \* get_ids, build_player_rows, hydrate_players_accounts and max_elo are
    \* not running
    /\ retries = 0
    /\ backoff = <<3, 2>>
    /\ attempt = 1
    /\ fpc = "idle"
    /\ resp = NoResponse
    /\ sleep_s = <<0, 1>>
    /\ last_exc = NoExc
    /\ result = NoResult
    /\ n_requests = 0
    /\ n_sleeps = 0
    /\ n_retryable = 0
    /\ net_failure = NoExc
    /\ players_accounts = <<>>
    /\ rows = <<>>
    /\ pi = 0
    /\ ai = 0
    /\ bpc = "idle"
    /\ games_24 = 0
    /\ games_7 = 0
    /\ last_game_ts_ms = 0
    /\ acc_elos = <<>>
    /\ raised = "None"
    /\ ops = <<>>
    /\ tally = <<>>
    /\ transport = [count |-> {}, ids |-> {}, detail |-> {}, league |-> {}]
    /\ disk = [kind |-> "absent", entries |-> <<>>, size |-> 0]
    /\ hyd = <<>>
    /\ rank_elos = <<>>
    /\ rank_best = <<>>
    /\ kpc = "idle"

\* lines 276-313: format_players_report(rows) returns
RenderCall ==
    /\ tpc = "call"
    /\ widths' = Widths(table_rows)
    /\ report' = ReportLines(table_rows, Widths(table_rows))
    /\ tpc' = "returned"
    /\ UNCHANGED <<table_rows, fvars, bvars, hvars, kvars>>

SpecRender == InitRender /\ [][RenderCall]_vars

-----------------------------------------------------------------------------
(* Specifications *)


NextFetch == GetIdsRequest \/ GetIdsSleep \/ GetIdsExhausted

SpecFetch == InitFetch /\ [][NextFetch]_vars

NextBuild == StartPlayer \/ AccCounts \/ AccLastGame \/ AccElo \/ AppendRow \/ BuildReturn

SpecBuild == InitBuild /\ [][NextBuild]_vars

-----------------------------------------------------------------------------
(* Properties of get_ids, checked under SpecFetch *)

FetchOver == fpc \in {"returned", "raised"}

\* C1: k retryable outcomes with k < retries followed by a 200 make the fetch
\* issue exactly k+1 requests and return the body of that 200: as long as
\* every outcome was retryable and fewer than `retries` were delivered the
\* fetch goes on, and a 200 ends it with that response's body.
C1_RetryThenSuccess ==
    /\ (n_requests = n_retryable /\ n_retryable < retries)
            => (fpc \in {"request", "sleep"} /\ result.kind = "none")
    /\ (resp.kind = "http" /\ resp.status = 200)
            => /\ fpc = "returned"
               /\ result.kind = "return"
               /\ result.value = resp.body
               /\ n_requests = n_retryable + 1

\* the script [429 (Retry-After: 1), 200]: two requests, the 200 body returned
C1_Witness ==
    /\ fpc = "returned"
    /\ n_requests = 2
    /\ n_retryable = 1
    /\ n_sleeps = 1
    /\ sleep_s = <<1, 1>>
    /\ result.value = resp.body
    /\ result.value.puuid = "puuid-1"

\* C2: a fetch never issues more than `retries` requests, whatever the
\* outcomes (429 included), and when every outcome is retryable it issues
\* exactly `retries` requests and then fails.
C2_AttemptLimit ==
    /\ n_requests <= retries
    /\ (FetchOver /\ n_retryable = n_requests)
            => (result.kind = "exhausted" /\ n_requests = retries)

\* retries = 3 and three 503: three requests, then the exhaustion error
C2_Witness ==
    /\ retries = 3
    /\ result.kind = "exhausted"
    /\ n_requests = 3
    /\ resp.status = 503
    /\ net_failure = NoExc

\* C3: a status other than 200, 429, 500, 502, 503, 504 ends the fetch at
\* once with the error carrying the status: no sleep and no request follows
\* it, and it is not the exhaustion error.
C3_NonRetryableStatus ==
    (resp.kind = "http" /\ resp.status \notin {200, 429, 500, 502, 503, 504})
        => /\ fpc = "raised"
           /\ result.kind = "api_error"
           /\ result.status = resp.status
           /\ n_requests = n_retryable + 1
           /\ n_sleeps = n_retryable

\* a 404 on the second of four attempts
C3_Witness ==
    /\ retries = 4
    /\ n_requests = 2
    /\ resp.status = 404
    /\ fpc = "raised"
    /\ result.status = 404

\* C4 as stated: the exhaustion error states the attempt count and wraps the
\* last failure, the most recent timeout / connection failure if there was
\* one, and some failure also when every response was a 5xx.
C4_Original ==
    (result.kind = "exhausted" /\ n_requests > 0)
        => /\ result.attempts = retries
           /\ result.cause # NoExc
           /\ (net_failure # NoExc => result.cause = net_failure)

\* C5: the sleep after failed attempt number a is the Retry-After value
\* after a 429 that carries one, min(2^a, 60) after a 429 without one, and
\* min(backoff^a, 30) after a 5xx or a timeout / connection failure.
C5_SleepDurations ==
    fpc = "sleep" =>
        LET a  == n_requests
            bn == backoff[1]^a
            bd == backoff[2]^a
        IN  IF resp.kind = "http" /\ resp.status = 429
            THEN IF resp.retry_after # <<>>
                 THEN sleep_s = <<DecimalValue(resp.retry_after), 1>>
                 ELSE /\ sleep_s[2] = 1
                      /\ sleep_s[1] <= 60
                      /\ sleep_s[1] = 2^a \/ (sleep_s[1] = 60 /\ 2^a > 60)
            ELSE /\ sleep_s[1] <= 30 * sleep_s[2]
                 /\ \/ sleep_s = <<bn, bd>>
                    \/ (sleep_s = <<30, 1>> /\ bn > 30 * bd)

\* both caps bind: 2^6 > 60 after a sixth 429, 2^5 > 30 after a fifth 503
C5_Witness ==
    /\ fpc = "sleep"
    /\ \/ (resp.status = 429 /\ resp.retry_after = <<>> /\ n_requests = 6
            /\ sleep_s = <<60, 1>>)
       \/ (resp.status = 503 /\ backoff = <<2, 1>> /\ n_requests = 5
            /\ sleep_s = <<30, 1>>)

-----------------------------------------------------------------------------
(* Properties of build_player_rows, checked under SpecBuild *)

\* the row of the player just processed has been appended, and `tally` still
\* holds what that player's queries were answered
RowDone == bpc \in {"player", "done"} /\ rows # <<>>
LastRow == rows[Len(rows)]
LastAccounts == players_accounts[Len(rows)].accounts

SetMax(S) == IF S = {} THEN 0 ELSE CHOOSE x \in S : \A y \in S : y <= x

\* some step of build_player_rows can be taken
CanStep ==
    \/ bpc = "player"
    \/ /\ bpc \in {"counts", "last", "elo", "row"}
       /\ pi \in 1..Len(players_accounts)
       /\ ai \in 1..Len(players_accounts[pi].accounts)
       /\ transport.count # {} /\ transport.ids # {}
       /\ transport.detail # {} /\ transport.league # {}

\* C6: for a roster with at least one account per player the build never
\* raises, whatever fails, always goes on to its return, and returns one row
\* per player in roster order; a player with two accounts, one failing in
\* every query and one answered in every query, gets a row with the counts
\* and the timestamp of the answered one.
C6_ReportAlwaysBuilt ==
    (\A p \in 1..Len(players_accounts) : players_accounts[p].accounts # <<>>)
        => /\ raised = "None"
           /\ bpc # "raised"
           /\ (bpc # "done" => CanStep)
           /\ Len(rows) <= Len(players_accounts)
           /\ \A i \in 1..Len(rows) : rows[i].Player = players_accounts[i].player
           /\ (bpc = "done" => Len(rows) = Len(players_accounts))
           /\ (RowDone /\ Len(LastAccounts) = 2 /\ tally.failed = 1 /\ tally.full = 1)
                => /\ LastRow.Games24 = tally.c24
                   /\ LastRow.Games7 = tally.c7
                   /\ LastRow.LastGame = FormatTsMs(SetMax(tally.ts))
                   /\ LastRow.LastGame # Str_NoGames

\* a finished build over two players, the last with two accounts of which
\* one failed entirely and the other contributed a game
C6_Witness ==
    /\ bpc = "done"
    /\ Len(rows) = 2
    /\ Len(LastAccounts) = 2
    /\ tally.failed = 1
    /\ tally.full = 1
    /\ LastRow.Games24 = 1
    /\ LastRow.Games7 = 1

\* C7 as stated: Games24 is the sum of the 24-hour counts whose query is
\* answered and Games7 the sum of the 7-day counts whose query is answered,
\* each independently of the other.
C7_Original ==
    RowDone => (LastRow.Games24 = tally.c24 /\ LastRow.Games7 = tally.c7)

\* C8 as stated: a stats request that gets a 429 or a 5xx and whose next
\* attempt would get a 200 yields the value of that 200 body.
C8_Original ==
    \A i \in 1..Len(ops) :
        (/\ Len(ops[i].script) = 2
         /\ ops[i].script[1] \in {StatsFail(429), StatsFail(503)}
         /\ ops[i].script[2].status = 200)
            => ops[i].got = [ok |-> TRUE, value |-> ops[i].script[2].value]

\* C9 as stated: the row's Elo is max_elo over the rank strings retrieved,
\* and "Unranked" when none of them is a rank; it is never absent.
C9_Original ==
    RowDone =>
        LET ranked == { i \in 1..Len(tally.elos) : tally.elos[i] # Str_Unranked }
        IN  /\ LastRow.Elo # PyNone
            /\ LastRow.Elo \in {Str_Unranked} \cup { tally.elos[i] : i \in 1..Len(tally.elos) }
            /\ (ranked = {} => LastRow.Elo = Str_Unranked)
            /\ (ranked # {} => LastRow.Elo = max_elo(tally.elos))

\* C10: the player's last-match timestamp is the maximum of the timestamps
\* the lookups returned so far, 0 when none did (whatever the order of the
\* accounts, and whatever lookups failed), and the row reads "No games"
\* exactly when no account returned a timestamp.
C10_LastMatchIsMax ==
    /\ bpc \in {"counts", "last", "elo", "row", "player", "done"}
            => last_game_ts_ms = SetMax(tally.ts)
    /\ RowDone => /\ (LastRow.LastGame = Str_NoGames) = (tally.ts = {})
                  /\ LastRow.LastGame = FormatTsMs(SetMax(tally.ts))

\* two accounts returned the timestamps 1 and 2 and a third lookup, if any,
\* failed: the row carries 2
C10_Witness ==
    /\ RowDone
    /\ tally.ts = {1, 2}
    /\ last_game_ts_ms = 2
    /\ LastRow.LastGame # Str_NoGames

-----------------------------------------------------------------------------
(* Properties of hydrate_players_accounts, checked under SpecHydrate *)

\* a cached value that is a record with a non-empty puuid
Usable(e) == e # NotARecord /\ e # NoEntry /\ e.puuid # ""

\* the cached value under `key` in `entries`, NoEntry when there is none
EntryOf(entries, key) == IF key \in DOMAIN entries THEN entries[key] ELSE NoEntry

\* the run has just passed the cache test of an account
Tested(h) == h.step.n > 0 /\ h.step.key # <<>> /\ h.cache.kind = "dict"

\* the account the run has just returned, when the last pass returned one
LastHydrated(h) ==
    LET p == CHOOSE x \in 1..Len(h.hydrated) :
                /\ h.hydrated[x].accounts # <<>>
                /\ \A y \in (x + 1)..Len(h.hydrated) : h.hydrated[y].accounts = <<>>
    IN  h.hydrated[p].accounts[Len(h.hydrated[p].accounts)]

\* C11: a cached entry is used exactly when it is a record with a non-empty
\* puuid, and then the account costs no lookup and no request and the cache
\* is left as it was; any other entry (missing, not a record, empty puuid) is
\* a miss: one lookup is made and, when it returns, its result replaces the
\* entry and is the identity returned.  No pass overwrites an entry that had
\* a non-empty puuid.
C11_CacheHitOrMiss ==
    \A r \in DOMAIN hyd :
        LET h == hyd[r]
            before == EntryOf(h.step.prev, h.step.key)
        IN  Tested(h) =>
              /\ Usable(before) =>
                    /\ ~h.step.called
                    /\ h.step.requests = 0
                    /\ h.cache.entries = h.step.prev
                    /\ h.pc # "raised"
                    /\ LastHydrated(h).puuid = before.puuid
              /\ ~Usable(before) =>
                    /\ h.step.called
                    /\ h.step.result.kind = "return" =>
                          /\ h.step.requests >= 1
                          /\ h.cache.entries[h.step.key] = h.step.result.value
                          /\ LastHydrated(h).puuid = h.step.result.value.puuid
                    /\ h.step.result.kind # "return" => h.cache.entries = h.step.prev
              /\ \A k \in DOMAIN h.step.prev :
                    Usable(h.step.prev[k]) => h.cache.entries[k] = h.step.prev[k]

\* a finished run in which the same label was a miss (one request) and then,
\* at its second occurrence, a hit on the entry the miss had stored
C11_Witness ==
    \E r \in DOMAIN hyd :
        /\ hyd[r].pc = "returned"
        /\ hyd[r].step.n = 2
        /\ ~hyd[r].step.called
        /\ hyd[r].step.key = CacheKey(Region, Label_NT)
        /\ hyd[r].step.key \notin DOMAIN hyd[r].loaded.entries
        /\ hyd[r].requests = 1

\* C12 as stated: a label that cannot be split fails only its own account;
\* the run goes on with the other accounts and is not aborted.
C12_Original ==
    \A r \in DOMAIN hyd :
        hyd[r].step.result.kind = "value_error" => hyd[r].pc # "raised"

\* C13 as stated: a run that ends with a configuration error (an account
\* without account_name, a cache file that is not JSON) has issued no request.
C13_Original ==
    \A r \in DOMAIN hyd :
        /\ hyd[r].raised = "ValueError: Missing account_name" => hyd[r].requests = 0
        /\ (disk.kind = "malformed" /\ hyd[r].pc \notin {"load", "write"})
                => (hyd[r].requests = 0 /\ hyd[r].pc # "returned")

\* the loaded entries with every identity resolved during the run put in
Merged(loaded, resolved) ==
    [k \in DOMAIN loaded \cup DOMAIN resolved |->
        IF k \in DOMAIN resolved THEN resolved[k] ELSE loaded[k]]

\* C14 as stated: a run that is over (and did not stop on a configuration
\* error) has read the cache file once and written it once, after its last
\* resolution, with the loaded entries plus every identity it resolved; no
\* write happens before the run is over.
C14_Original ==
    \A r \in DOMAIN hyd :
        LET h == hyd[r]
        IN  /\ h.pc \in {"player", "account"} => (h.reads = 1 /\ h.writes = 0)
            /\ (/\ h.pc \in {"returned", "raised"}
                /\ h.raised \notin {"ValueError: Missing account_name", "AttributeError"})
                  => /\ h.reads = 1
                     /\ h.writes = 1
                     /\ disk.kind = h.loaded.kind
                     /\ disk.entries = Merged(h.loaded.entries, h.resolved)
                     /\ \A k \in DOMAIN h.loaded.entries :
                            Usable(h.loaded.entries[k]) => disk.entries[k] = h.loaded.entries[k]

-----------------------------------------------------------------------------
(* Properties of the report build of send_daily_message, checked under SpecBuild *)

\* C15 as stated: the identity of every account is resolved before its stats
\* are requested, so the stats queries of an account are never reached (made
\* or skipped) while the account has no internal identifier.
C15_Original ==
    bpc \in {"last", "elo"} => players_accounts[pi].accounts[ai].puuid # <<>>

-----------------------------------------------------------------------------
(* Properties of max_elo and _parse_elo, checked under SpecRank *)

\* lexicographic k1 >= k2 on (tierRank, divisionValue, leaguePoints)
LexGeq(k1, k2) ==
    \/ k1[1] > k2[1]
    \/ k1[1] = k2[1] /\ k1[2] > k2[2]
    \/ k1[1] = k2[1] /\ k1[2] = k2[2] /\ k1[3] >= k2[3]

\* rank string s names tier number t of the ten tiers (1 = IRON)
NamesTier(s, t) == OccursAt(s, 1, TIERS[t] \o <<" ">>)

\* C16: max_elo returns None exactly when no entry parses to a key other
\* than the sentinel; otherwise it returns an entry of the list whose key is
\* greater than or equal to the key of every parseable entry; of
\* ["SILVER III - 40 LP", "GOLD IV - 10 LP", "Unranked"] it returns
\* "GOLD IV - 10 LP".
C16_BestIsGreatest ==
    kpc = "returned" =>
        LET parseable == { i \in 1..Len(rank_elos) : ParseElo(rank_elos[i]) # <<-1, -1, -1>> }
        IN  /\ (rank_best = PyNone) <=> (parseable = {})
            /\ parseable # {} =>
                  \E i \in parseable :
                      /\ rank_best = rank_elos[i]
                      /\ \A j \in parseable :
                            LexGeq(ParseElo(rank_elos[i]), ParseElo(rank_elos[j]))
            /\ rank_elos = << Produced(3, <<"I", "I", "I">>, 40), Produced(4, <<"I", "V">>, 10),
                              Str_Unranked >>
                  => rank_best = <<"G", "O", "L", "D", " ", "I", "V", " ", "-", " ",
                                   "1", "0", " ", "L", "P">>

\* the example of the claim
C16_Witness ==
    /\ kpc = "returned"
    /\ rank_elos = << Produced(3, <<"I", "I", "I">>, 40), Produced(4, <<"I", "V">>, 10),
                      Str_Unranked >>
    /\ rank_best = Produced(4, <<"I", "V">>, 10)

\* C17 as stated: of two rank strings naming different tiers, the one naming
\* the higher of the ten tiers has the strictly greater tierRank and is the
\* one max_elo returns, in either order.
C17_Original ==
    (kpc = "returned" /\ Len(rank_elos) = 2) =>
        \A ta \in 1..Len(TIERS), tb \in 1..Len(TIERS) :
            (ta < tb /\ \E i \in {1, 2} : NamesTier(rank_elos[i], ta) /\ NamesTier(rank_elos[3 - i], tb))
                => LET hi == CHOOSE i \in {1, 2} : NamesTier(rank_elos[i], tb)
                   IN  /\ ParseElo(rank_elos[hi])[1] > ParseElo(rank_elos[3 - hi])[1]
                       /\ rank_best = rank_elos[hi]

\* C18 as stated: for strings in the format get_current_elo produces, the
\* third component of the key is the LP number of the string, and of two
\* strings of the same tier and division max_elo returns the one with more
\* LP, in either order.
C18_Original ==
    (kpc = "returned" /\ Len(rank_elos) = 2) =>
        \A t \in {4, 7}, d \in {<<"I", "V">>, <<"I", "I">>} :
            \A i \in {1, 2} :
                (rank_elos[i] = Produced(t, d, 10) /\ rank_elos[3 - i] = Produced(t, d, 90))
                    => /\ ParseElo(rank_elos[i])[3] = 10
                       /\ ParseElo(rank_elos[3 - i])[3] = 90
                       /\ rank_best = Produced(t, d, 90)

\* C19: a rank string of MASTER, GRANDMASTER or CHALLENGER has a key strictly
\* above the key of any rank string of IRON to DIAMOND, whatever the
\* divisions and LP values, and max_elo returns it, in either order.
C19_TopTiersAboveDivisions ==
    (kpc = "returned" /\ Len(rank_elos) = 2) =>
        \A i \in {1, 2} :
            (/\ \E t \in 8..10 : NamesTier(rank_elos[i], t)
             /\ \E t \in 1..7 : NamesTier(rank_elos[3 - i], t))
                => /\ LexGeq(ParseElo(rank_elos[i]), ParseElo(rank_elos[3 - i]))
                   /\ ParseElo(rank_elos[i]) # ParseElo(rank_elos[3 - i])
                   /\ ~LexGeq(ParseElo(rank_elos[3 - i]), ParseElo(rank_elos[i]))
                   /\ rank_best = rank_elos[i]

\* "MASTER - 0 LP" listed after "DIAMOND I - 100 LP"
C19_Witness ==
    /\ kpc = "returned"
    /\ rank_elos = << Produced(7, <<"I">>, 100), Undivided(8, 0) >>
    /\ rank_best = <<"M", "A", "S", "T", "E", "R", " ", "-", " ", "0", " ", "L", "P">>

-----------------------------------------------------------------------------
(* Properties of format_players_report, checked under SpecRender *)

\* the text a cell of row r shows in column k
ShownText(r, k) ==
    LET v == table_rows[r][Cols[k]]
    IN  CASE v.t = "str" -> v.s
          [] v.t = "int" -> StrOfNat(v.n)
          [] v.t = "none" -> <<"N", "o", "n", "e">>
          [] v.t = "missing" -> <<>>

\* the position of the first character of column k in a line
RECURSIVE ColumnStart(_)
ColumnStart(k) == IF k = 1 THEN 1 ELSE ColumnStart(k - 1) + widths[k - 1] + 2

\* C20: each column's width is the maximum of its header's length and the
\* length of the text shown in every cell of the column, so no shown cell is
\* longer than its column; the header line, the separator line and every row
\* line have the same length, the widths plus two spaces between columns; and
\* every row line shows each cell inside its column.
C20_ColumnWidths ==
    tpc = "returned" =>
        /\ Len(widths) = 7
        /\ \A k \in 1..7 :
              /\ widths[k] >= Len(Headers[k])
              /\ \A r \in 1..Len(table_rows) : Len(ShownText(r, k)) <= widths[k]
              /\ \/ widths[k] = Len(Headers[k])
                 \/ \E r \in 1..Len(table_rows) : widths[k] = Len(ShownText(r, k))
        /\ Len(report) = Len(table_rows) + 2
        /\ \A l \in 1..Len(report) : Len(report[l]) = ColumnStart(7) + widths[7] - 1
        /\ \A k \in 1..7 : OccursAt(report[1], ColumnStart(k), Headers[k])
        /\ \A i \in 1..Len(report[2]) :
              report[2][i] = (IF \E k \in 1..6 : i \in (ColumnStart(k + 1) - 2)..(ColumnStart(k + 1) - 1)
                              THEN " " ELSE "-")
        /\ \A r \in 1..Len(table_rows), k \in 1..7 :
              \E at \in ColumnStart(k)..(ColumnStart(k) + widths[k] - Len(ShownText(r, k))) :
                  OccursAt(report[r + 2], at, ShownText(r, k))

\* two rows: a player name longer than its header in one, an Elo of None in
\* the other
C20_Witness ==
    /\ tpc = "returned"
    /\ Len(table_rows) = 2
    /\ table_rows[1].Player.s = <<"L", "o", "n", "g", "P", "l", "a", "y", "e", "r">>
    /\ table_rows[2].Elo = NoneCell
    /\ widths[1] = 10
    /\ widths[5] = 11
    /\ Len(report) = 4

-----------------------------------------------------------------------------
(* The pacing of get_ids, checked under SpecFetch *)

\* C21: within one fetch no two requests are issued back to back: a request is
\* issued only when every earlier request has been followed by its sleep, a
\* sleep is taken only after a retryable failed attempt and once per such
\* attempt, and a fetch that is over has slept once per retryable failure,
\* the failure of the final attempt before the exhaustion error included.
C21_SleepBetweenRequests ==
    /\ fpc = "request" => (n_sleeps = n_requests /\ n_retryable = n_requests)
    /\ fpc = "sleep"
            => /\ TransportRetryable(resp)
               /\ n_requests = n_sleeps + 1
               /\ n_retryable = n_sleeps + 1
    /\ FetchOver => n_sleeps = n_retryable
    /\ result.kind = "exhausted" => (n_sleeps = retries /\ n_requests = retries)
    /\ result.kind \in {"return", "api_error"} => n_requests = n_sleeps + 1

\* retries = 3, a timeout first and a 503 last: three requests, three sleeps,
\* the third one after the final attempt, then the exhaustion error
C21_Witness ==
    /\ retries = 3
    /\ result.kind = "exhausted"
    /\ n_requests = 3
    /\ n_sleeps = 3
    /\ net_failure = [exc |-> "Timeout", at |-> 1]
    /\ resp.status = 503

-----------------------------------------------------------------------------
(* Properties of two runs on one cache file, checked under SpecOverlap *)

\* the entries run q holds when it writes the file
Persisted(q) == Merged(hyd[q].loaded.entries, hyd[q].resolved)

\* run r resolved an identity the cache file does not hold
Lacks(r) == \E k \in DOMAIN hyd[r].resolved : k \notin DOMAIN disk.entries

\* run r read the cache file when run q was over
After(r, q) == hyd[r].pc # "load" /\ hyd[r].seen[q] \in {"returned", "raised"}

\* runs r and q both read the cache file before either opened it for writing
BothLoadedFirst(r, q) ==
    /\ r # q
    /\ hyd[r].pc # "load" /\ hyd[r].seen[q] \in {"load", "player", "account"}
    /\ hyd[q].pc # "load" /\ hyd[q].seen[r] \in {"load", "player", "account"}

\* C22: the cache write-back is a rewrite of the whole file from what the run
\* loaded and resolved, so it is not safe against overlapping runs: two runs
\* that both read the file before either wrote it read the same content, and
\* once both have returned the file is unreadable or holds exactly what one
\* of them held, so what the other resolved is gone unless that run had it
\* too. A run that read the file after another run had returned keeps every
\* entry of that run, the usable ones unchanged.
C22_LastWriterWins ==
    /\ \A r, q \in DOMAIN hyd :
            BothLoadedFirst(r, q)
                => /\ hyd[r].loaded = hyd[q].loaded
                   /\ (hyd[r].pc = "returned" /\ hyd[q].pc = "returned")
                        => \/ disk.kind = "malformed"
                           \/ \E w \in {r, q} :
                                 /\ disk.kind = hyd[w].loaded.kind
                                 /\ disk.entries = Persisted(w)
    /\ \A r, q \in DOMAIN hyd :
            (After(r, q) /\ hyd[q].pc = "returned" /\ hyd[r].pc # "write")
                => /\ DOMAIN Persisted(q) \subseteq DOMAIN disk.entries
                   /\ \A k \in DOMAIN hyd[q].resolved :
                          Usable(hyd[q].resolved[k]) => disk.entries[k] = hyd[q].resolved[k]

\* both runs read the empty cache before either wrote it, run 1 resolved N#T
\* and wrote, run 2 resolved M#T and wrote last: the file has no entry for N#T
C22_Witness ==
    /\ BothLoadedFirst(1, 2)
    /\ hyd[1].pc = "returned"
    /\ hyd[2].pc = "returned"
    /\ DOMAIN hyd[1].resolved = { CacheKey(Region, Label_NT) }
    /\ hyd[1].resolved[CacheKey(Region, Label_NT)].puuid = "puuid-1"
    /\ DOMAIN disk.entries = { CacheKey(Region, <<"M", "#", "T">>) }
    /\ Lacks(1)
    /\ ~Lacks(2)

=============================================================================
